---- MODULE Spec2Model ----
(***************************************************************************)
(* The Person collection of mongoose-checkpoint and the operations of its  *)
(* PersonService (src/services/personService.js) on it, with the schema of *)
(* src/models/Person.js.                                                   *)
(*                                                                         *)
(* A JavaScript string is a sequence of one-character strings, so that     *)
(* trimming, lower-casing, length and pattern checks are computed.  A      *)
(* scalar JavaScript value is a tagged record: Undefined, Null, Str(s),    *)
(* Num(n) or Bool(b).                                                      *)
(***************************************************************************)
EXTENDS Integers, Sequences, FiniteSets, TLC

----------------------------------------------------------------------------
(* JavaScript values *)

Undefined == [undefined |-> TRUE]
Null == [null |-> TRUE]
Str(s) == [str |-> s]
Num(n) == [num |-> n]
Bool(b) == [bool |-> b]

\* A JavaScript array of strings
Arr(a) == [arr |-> a]
\* An ObjectId; the ids of this model are the naturals from 1
Oid(n) == [oid |-> n]

IsStr(v) == DOMAIN v = {"str"}
IsArr(v) == DOMAIN v = {"arr"}
IsOid(v) == DOMAIN v = {"oid"}
IsNum(v) == DOMAIN v = {"num"}
IsBool(v) == DOMAIN v = {"bool"}

\* JavaScript truthiness: undefined, null, '', 0 and false are falsy.
Truthy(v) ==
  CASE IsStr(v) -> v.str # <<>>
    [] IsNum(v) -> v.num # 0
    [] IsBool(v) -> v.bool
    [] IsArr(v) -> TRUE
    [] IsOid(v) -> TRUE
    [] OTHER -> FALSE

\* a || b
OrElse(a, b) == IF Truthy(a) THEN a ELSE b

----------------------------------------------------------------------------
(* Strings *)

AlphaLower == <<"a","b","c","d","e","f","g","h","i","j","k","l","m",
                "n","o","p","q","r","s","t","u","v","w","x","y","z">>
AlphaUpper == <<"A","B","C","D","E","F","G","H","I","J","K","L","M",
                "N","O","P","Q","R","S","T","U","V","W","X","Y","Z">>
Digits == {"0","1","2","3","4","5","6","7","8","9"}
Range(f) == {f[i] : i \in DOMAIN f}
Letters == Range(AlphaLower) \cup Range(AlphaUpper)
WhiteSpace == {" "}
\* \w of a JavaScript regular expression
WordChars == Letters \cup Digits \cup {"_"}

ToLowerChar(c) ==
  IF c \in Range(AlphaUpper)
    THEN AlphaLower[CHOOSE i \in DOMAIN AlphaUpper : AlphaUpper[i] = c]
    ELSE c

\* String.prototype.toLowerCase
ToLowerCase(s) == [i \in DOMAIN s |-> ToLowerChar(s[i])]

RECURSIVE TrimStart(_)
TrimStart(s) ==
  IF s # <<>> /\ Head(s) \in WhiteSpace THEN TrimStart(Tail(s)) ELSE s

RECURSIVE TrimEnd(_)
TrimEnd(s) ==
  IF s # <<>> /\ s[Len(s)] \in WhiteSpace
    THEN TrimEnd(SubSeq(s, 1, Len(s) - 1))
    ELSE s

\* String.prototype.trim
Trim(s) == TrimEnd(TrimStart(s))

----------------------------------------------------------------------------
(* The schema of src/models/Person.js *)

MinNameLength == 2
MaxNameLength == 100
MinAge == 0
MaxAge == 120
MinFoodLength == 2
MaxFoodLength == 50
MaxFavoriteFoods == 20

\* /^[a-zA-Z\s]{2,100}$/
NamePattern(s) ==
  /\ Len(s) >= 2
  /\ Len(s) <= 100
  /\ \A i \in DOMAIN s : s[i] \in Letters \cup WhiteSpace

\* \w+([\.-]?\w+)*
WordRun(s) ==
  /\ Len(s) >= 1
  /\ s[1] \in WordChars
  /\ s[Len(s)] \in WordChars
  /\ \A i \in DOMAIN s : s[i] \in WordChars \cup {".", "-"}
  /\ \A i \in 1..(Len(s) - 1) : s[i] \in {".", "-"} => s[i + 1] \in WordChars

\* (\.\w{2,3})+
RECURSIVE DotSuffixes(_)
DotSuffixes(s) ==
  /\ Len(s) >= 3
  /\ s[1] = "."
  /\ \E k \in {2, 3} :
       /\ Len(s) >= k + 1
       /\ \A j \in 2..(k + 1) : s[j] \in WordChars
       /\ \/ Len(s) = k + 1
          \/ DotSuffixes(SubSeq(s, k + 2, Len(s)))

\* /^\w+([\.-]?\w+)*@\w+([\.-]?\w+)*(\.\w{2,3})+$/
EmailPattern(s) ==
  \E a \in DOMAIN s :
    /\ s[a] = "@"
    /\ WordRun(SubSeq(s, 1, a - 1))
    /\ \E k \in (a + 1)..(Len(s) - 1) :
         /\ WordRun(SubSeq(s, a + 1, k))
         /\ DotSuffixes(SubSeq(s, k + 1, Len(s)))

\* The setters of the name path: trim.
SetName(v) == IF IsStr(v) THEN Str(Trim(v.str)) ELSE v

\* The setters of the email path: lowercase and trim.
SetEmail(v) == IF IsStr(v) THEN Str(Trim(ToLowerCase(v.str))) ELSE v

\* The setter of one favoriteFoods item: trim.
SetFood(f) == Trim(f)

SetFoods(fs) == [i \in DOMAIN fs |-> SetFood(fs[i])]

\* required, minlength, maxlength and the custom validator of name
ValidName(v) ==
  /\ IsStr(v)
  /\ v.str # <<>>
  /\ Len(v.str) >= MinNameLength
  /\ Len(v.str) <= MaxNameLength
  /\ NamePattern(v.str)

\* An age path without its max
ValidAgeWithoutMax(v) ==
  \/ v = Null
  \/ IsNum(v) /\ v.num >= MinAge

\* min and max of age; a null age is not validated
ValidAge(v) ==
  \/ v = Null
  \/ IsNum(v) /\ v.num >= MinAge /\ v.num <= MaxAge

\* minlength and maxlength of each item, and the length validator of the array
ValidFoods(fs) ==
  /\ \A i \in DOMAIN fs :
       Len(fs[i]) >= MinFoodLength /\ Len(fs[i]) <= MaxFoodLength
  /\ Len(fs) <= MaxFavoriteFoods

\* match of email; null, undefined and '' are not matched
ValidEmail(v) ==
  IsStr(v) /\ v.str # <<>> => EmailPattern(v.str)

\* Document.prototype.validate for a Person
ValidPerson(d) ==
  /\ ValidName(d.name)
  /\ ValidAge(d.age)
  /\ ValidFoods(d.favoriteFoods)
  /\ ValidEmail(d.email)

----------------------------------------------------------------------------
(* The state *)

VARIABLES
  people,   \* the stored documents of the Person collection, by _id
  nextId,   \* the next ObjectId a new document gets
  now,      \* Date.now()
  calls,    \* the updatePersonClassic calls: where each is, and what it holds
  log,      \* the database calls the updatePersonClassic calls made, in order
  last,     \* the most recent other service call: arguments and outcome
  stats,    \* the getStats call: where it is, and what it holds
  isConnected,  \* DatabaseConnection.isConnected
  connection,   \* DatabaseConnection.connection
  mongoose,     \* the underlying connection: its state, listeners, attempts
  process       \* the running script: where it is, its locals, its exit code

vars == <<people, nextId, now, calls, log, last,
          stats, isConnected, connection, mongoose, process>>

\* The connection manager and the script that runs
app == <<isConnected, connection, mongoose, process>>

\* What the PersonService methods other than getStats leave alone
rest == <<stats, isConnected, connection, mongoose, process>>

\* Bounds of the model
MaxPeople == 3
MaxCalls == 2
MaxClock == 1
MaxEmailPeople == 2
MaxFoodPeople == 1

Ids == DOMAIN people

Resolved(op, args, value) ==
  [op |-> op, args |-> args, outcome |-> "resolved", value |-> value]
Rejected(op, args, error) ==
  [op |-> op, args |-> args, outcome |-> "rejected", value |-> error]

----------------------------------------------------------------------------
(* The model layer: documents, casting, the unique index *)

\* new Person(obj): setters and defaults of every path; timestamps are set
\* by the first save
NewPerson(id, obj) ==
  [_id |-> id,
   name |-> SetName(obj.name),
   age |-> IF obj.age = Undefined THEN Null ELSE obj.age,
   favoriteFoods |->
     IF IsArr(obj.favoriteFoods) THEN SetFoods(obj.favoriteFoods.arr) ELSE <<>>,
   email |-> SetEmail(obj.email),
   isActive |-> IF obj.isActive = Undefined THEN Bool(TRUE) ELSE obj.isActive,
   createdAt |-> now,
   updatedAt |-> now]

\* A collection without the unique index
NoUniqueIndex(coll, id, e) == FALSE

\* The unique sparse index on email: a document is indexed when it has the
\* email field, whatever its value (null included); a document without the
\* field is not.  TRUE when storing email e under id would collide.
DuplicateEmail(coll, id, e) ==
  /\ e # Undefined
  /\ \E j \in DOMAIN coll : j # id /\ coll[j].email = e

\* The collection with document d stored under d._id
Store(coll, d) ==
  [j \in DOMAIN coll \cup {d._id} |-> IF j = d._id THEN d ELSE coll[j]]

\* The collection without the documents of ids
Remove(coll, ids) == [j \in DOMAIN coll \ ids |-> coll[j]]

\* Casting of a query filter on name: the path's setters run on the value
CastName(n) == SetName(n)

\* Casting of a query filter on favoriteFoods: the item's setters run
CastFood(f) == IF IsStr(f) THEN Str(SetFood(f.str)) ELSE f

\* Casting of an _id: an ObjectId, or a string of 12 characters or of 24
\* hexadecimal digits
HexDigits == Digits \cup {"a","b","c","d","e","f","A","B","C","D","E","F"}
CastableId(v) ==
  \/ IsOid(v)
  \/ IsStr(v) /\ \/ Len(v.str) = 12
                 \/ Len(v.str) = 24 /\ \A i \in DOMAIN v.str : v.str[i] \in HexDigits

\* A filter on name whose value is compared as given
MatchNameAsGiven(coll, n) == {j \in DOMAIN coll : coll[j].name = n}

\* { name: n }
MatchName(coll, n) == {j \in DOMAIN coll : coll[j].name = CastName(n)}

\* { favoriteFoods: f }
MatchFood(coll, f) ==
  {j \in DOMAIN coll :
     \E i \in DOMAIN coll[j].favoriteFoods :
       Str(coll[j].favoriteFoods[i]) = CastFood(f)}

\* { _id: v }
MatchId(coll, v) == {j \in DOMAIN coll : IsOid(v) /\ v.oid = j}

\* document.save() of a new document: validation, then insertOne under the
\* unique index.  The outcome: "ok", "ValidationError" or "E11000".
InsertOutcome(coll, d) ==
  IF ~ValidPerson(d) THEN "ValidationError"
  ELSE IF DuplicateEmail(coll, d._id, d.email) THEN "E11000"
  ELSE "ok"

----------------------------------------------------------------------------
(* PersonService *)

\* createAndSavePerson(personData)
CreateAndSavePerson(personData) ==
  LET args == [personData |-> personData]
      person == NewPerson(nextId,
                  [name |-> personData.name,
                   age |-> OrElse(personData.age, Null),
                   favoriteFoods |-> OrElse(personData.favoriteFoods, Arr(<<>>)),
                   email |-> OrElse(personData.email, Null),
                   isActive |-> IF personData.isActive # Undefined
                                  THEN personData.isActive
                                  ELSE Bool(TRUE)])
      outcome == InsertOutcome(people, person)
  IN /\ IF ~Truthy(personData.name)
          THEN /\ last' = Rejected("createAndSavePerson", args, "Name is required")
               /\ UNCHANGED <<people, nextId>>
          ELSE IF outcome = "ok"
            THEN /\ people' = Store(people, person)
                 /\ nextId' = nextId + 1
                 /\ last' = Resolved("createAndSavePerson", args, person)
            ELSE /\ last' = Rejected("createAndSavePerson", args, outcome)
                 /\ UNCHANGED <<people, nextId>>
     /\ UNCHANGED <<now, calls, log>>

\* A findPersonById that rejects when nothing matches
FindPersonByIdRejecting(coll, personId) ==
  LET args == [personId |-> personId]
      found == MatchId(coll, personId)
  IN IF ~Truthy(personId)
       THEN Rejected("findPersonById", args, "personId is required")
     ELSE IF ~CastableId(personId)
       THEN Rejected("findPersonById", args, "CastError")
     ELSE IF found = {}
       THEN Rejected("findPersonById", args, "not found")
     ELSE Resolved("findPersonById", args, coll[CHOOSE j \in found : TRUE])

\* What findPersonById(personId) settles with
FindPersonByIdResult(coll, personId) ==
  LET args == [personId |-> personId]
      found == MatchId(coll, personId)
  IN IF ~Truthy(personId)
       THEN Rejected("findPersonById", args, "personId is required")
     ELSE IF ~CastableId(personId)
       THEN Rejected("findPersonById", args, "CastError")
     ELSE IF found = {}
       THEN Resolved("findPersonById", args, Null)
     ELSE Resolved("findPersonById", args, coll[CHOOSE j \in found : TRUE])

\* findPersonById(personId)
FindPersonById(personId) ==
  /\ last' = FindPersonByIdResult(people, personId)
  /\ UNCHANGED <<people, nextId, now, calls, log>>

\* The injective sequences of length n over 1..n: the orders in which the
\* saves of a batch can reach the server
Orders(n) ==
  {o \in [1..n -> 1..n] : \A a, b \in 1..n : a # b => o[a] # o[b]}

\* Model.create(array): every element becomes a document that is validated
\* and inserted by a save of its own; a save that fails stops no other save.
\* st is [people, nextId, saved, errors]; objs are the elements still to save.
RECURSIVE SaveEach(_, _)
SaveEach(st, objs) ==
  IF objs = <<>> THEN st
  ELSE
    LET d == NewPerson(st.nextId, Head(objs))
        outcome == InsertOutcome(st.people, d)
    IN SaveEach(
         IF outcome = "ok"
           THEN [people |-> Store(st.people, d),
                 nextId |-> st.nextId + 1,
                 saved |-> Append(st.saved, d),
                 errors |-> st.errors]
           ELSE [st EXCEPT !.errors = Append(st.errors, outcome)],
         Tail(objs))

\* createManyPeople(arrayOfPeople)
CreateManyPeople(arrayOfPeople) ==
  LET args == [arrayOfPeople |-> arrayOfPeople]
  IN /\ IF ~IsArr(arrayOfPeople) \/ arrayOfPeople.arr = <<>>
          THEN /\ last' = Rejected("createManyPeople", args,
                                   "arrayOfPeople must be a non-empty array")
               /\ UNCHANGED <<people, nextId>>
          ELSE
            LET objs == arrayOfPeople.arr
            IN \E o \in Orders(Len(objs)) :
                 LET st == SaveEach(
                             [people |-> people, nextId |-> nextId,
                              saved |-> <<>>, errors |-> <<>>],
                             [i \in 1..Len(objs) |-> objs[o[i]]])
                 IN /\ people' = st.people
                    /\ nextId' = st.nextId
                    /\ last' =
                         IF st.errors = <<>>
                           THEN Resolved("createManyPeople", args, Arr(st.saved))
                           ELSE Rejected("createManyPeople", args, st.errors[1])
     /\ UNCHANGED <<now, calls, log>>

\* The documents of ids, in the order the collection returns them
RECURSIVE Docs(_, _)
Docs(coll, ids) ==
  IF ids = {} THEN <<>>
  ELSE LET j == CHOOSE k \in ids : \A m \in ids : k <= m
       IN <<coll[j]>> \o Docs(coll, ids \ {j})

\* findPeopleByName(name)
FindPeopleByName(name) ==
  LET args == [name |-> name]
  IN /\ last' =
          IF ~Truthy(name) \/ ~IsStr(name)
            THEN Rejected("findPeopleByName", args, "Valid name string is required")
            ELSE Resolved("findPeopleByName", args,
                          Arr(Docs(people, MatchName(people, name))))
     /\ UNCHANGED <<people, nextId, now, calls, log>>

\* findOneByFood(food)
FindOneByFood(food) ==
  LET args == [food |-> food]
      found == MatchFood(people, food)
  IN /\ IF ~Truthy(food) \/ ~IsStr(food)
          THEN last' = Rejected("findOneByFood", args, "Valid food string is required")
          ELSE IF found = {}
            THEN last' = Resolved("findOneByFood", args, Null)
            ELSE \E j \in found : last' = Resolved("findOneByFood", args, people[j])
     /\ UNCHANGED <<people, nextId, now, calls, log>>

\* getAllPeople()
GetAllPeople ==
  /\ last' = Resolved("getAllPeople", <<>>, Arr(Docs(people, DOMAIN people)))
  /\ UNCHANGED <<people, nextId, now, calls, log>>

\* Array.prototype.includes on the favoriteFoods of a loaded document: the
\* argument is compared as given
Includes(foods, f) == \E i \in DOMAIN foods : foods[i] = f

\* updates.addToFavorites.forEach(food => { if (!includes(food)) push(food) }):
\* push casts the item, which runs its setters
RECURSIVE AddToFavorites(_, _)
AddToFavorites(foods, toAdd) ==
  IF toAdd = <<>> THEN foods
  ELSE AddToFavorites(
         IF Includes(foods, Head(toAdd))
           THEN foods
           ELSE Append(foods, SetFood(Head(toAdd))),
         Tail(toAdd))

AddsFavorites(updates) ==
  Truthy(updates.addToFavorites) /\ IsArr(updates.addToFavorites)

\* Step 2 of updatePersonClassic and the pre('save') hook: the loaded document
\* as the callback leaves it in memory
ApplyUpdates(doc, updates) ==
  [doc EXCEPT
     !.name = IF Truthy(updates.name) THEN SetName(updates.name) ELSE @,
     !.age = IF updates.age # Undefined THEN updates.age ELSE @,
     !.email = IF updates.email # Undefined THEN SetEmail(updates.email) ELSE @,
     !.isActive = IF updates.isActive # Undefined THEN updates.isActive ELSE @,
     !.favoriteFoods =
        IF AddsFavorites(updates)
          THEN AddToFavorites(@, updates.addToFavorites.arr)
          ELSE @,
     !.updatedAt = now]

\* A save() that sends the whole array whenever favoriteFoods was touched
SaveDeltaWholeArray(loaded, person, updates) ==
  [set |-> [f \in {g \in {"name", "age", "email", "isActive", "updatedAt"} :
                     person[g] # loaded[g]} |-> person[f]],
   foods |->
     IF ~AddsFavorites(updates) THEN [op |-> "none"]
     ELSE [op |-> "$set", value |-> person.favoriteFoods]]

\* What save() of a loaded document sends to updateOne: $set of the paths
\* whose value changed, and for favoriteFoods, once marked modified, $push of
\* the items pushed since the load or, when none was pushed, $set of the array
SaveDelta(loaded, person, updates) ==
  [set |-> [f \in {g \in {"name", "age", "email", "isActive", "updatedAt"} :
                     person[g] # loaded[g]} |-> person[f]],
   foods |->
     IF ~AddsFavorites(updates) THEN [op |-> "none"]
     ELSE IF Len(person.favoriteFoods) > Len(loaded.favoriteFoods)
       THEN [op |-> "$push",
             each |-> SubSeq(person.favoriteFoods,
                             Len(loaded.favoriteFoods) + 1,
                             Len(person.favoriteFoods))]
       ELSE [op |-> "$set", value |-> person.favoriteFoods]]

\* updateOne({ _id }, delta) on the stored document
ApplyDelta(stored, delta) ==
  [f \in DOMAIN stored |->
     IF f \in DOMAIN delta.set THEN delta.set[f]
     ELSE IF f = "favoriteFoods" /\ delta.foods.op = "$push"
       THEN stored.favoriteFoods \o delta.foods.each
     ELSE IF f = "favoriteFoods" /\ delta.foods.op = "$set"
       THEN delta.foods.value
     ELSE stored[f]]

\* A callback that resolves with null when nothing was found
FindByIdCallbackResolvingNull(coll, personId, updates) ==
  LET found == MatchId(coll, personId)
      loaded == coll[CHOOSE j \in found : TRUE]
      person == ApplyUpdates(loaded, updates)
      call == [personId |-> personId, updates |-> updates]
  IN IF ~CastableId(personId)
       THEN [pc |-> "rejected", call |-> call, error |-> "CastError"]
     ELSE IF found = {}
       THEN [pc |-> "resolved", call |-> call, value |-> Null]
     ELSE IF ~ValidPerson(person)
       THEN [pc |-> "rejected", call |-> call, error |-> "ValidationError"]
     ELSE [pc |-> "saving", call |-> call, loaded |-> loaded,
           person |-> person, delta |-> SaveDelta(loaded, person, updates)]

\* The callback of Person.findById in updatePersonClassic: what the call holds
\* once the callback has run, person.save() included up to its validation,
\* which runs before anything is sent
FindByIdCallback(coll, personId, updates) ==
  LET found == MatchId(coll, personId)
      loaded == coll[CHOOSE j \in found : TRUE]
      person == ApplyUpdates(loaded, updates)
      call == [personId |-> personId, updates |-> updates]
  IN IF ~CastableId(personId)
       THEN [pc |-> "rejected", call |-> call, error |-> "CastError"]
     ELSE IF found = {}
       THEN [pc |-> "rejected", call |-> call, error |-> "not found"]
     ELSE IF ~ValidPerson(person)
       THEN [pc |-> "rejected", call |-> call, error |-> "ValidationError"]
     ELSE [pc |-> "saving", call |-> call, loaded |-> loaded,
           person |-> person, delta |-> SaveDelta(loaded, person, updates)]

\* updatePersonClassic(personId, updates), steps 1 and 2: Person.findById and
\* its callback
UpdatePersonClassicFind(c, personId, updates) ==
  /\ calls[c].pc = "idle"
  /\ IF ~Truthy(personId)
       THEN /\ calls' = [calls EXCEPT ![c] =
                           [pc |-> "rejected",
                            call |-> [personId |-> personId, updates |-> updates],
                            error |-> "personId is required"]]
            /\ UNCHANGED log
       ELSE /\ log' = Append(log, <<"findById", c>>)
            /\ calls' = [calls EXCEPT ![c] =
                           FindByIdCallback(people, personId, updates)]
  /\ UNCHANGED <<people, nextId, now, last>>

\* updatePersonClassic, step 3: the updateOne that person.save() sends
UpdatePersonClassicSave(c) ==
  LET id == calls[c].loaded._id
      delta == calls[c].delta
  IN /\ calls[c].pc = "saving"
     /\ log' = Append(log, <<"updateOne", c>>)
     /\ IF id \notin DOMAIN people
          THEN /\ calls' = [calls EXCEPT ![c] =
                              [pc |-> "rejected", call |-> calls[c].call,
                               error |-> "DocumentNotFoundError"]]
               /\ UNCHANGED people
          ELSE IF "email" \in DOMAIN delta.set
                  /\ DuplicateEmail(people, id, delta.set.email)
            THEN /\ calls' = [calls EXCEPT ![c] =
                                [pc |-> "rejected", call |-> calls[c].call,
                                 error |-> "E11000"]]
                 /\ UNCHANGED people
            ELSE /\ people' = Store(people, ApplyDelta(people[id], delta))
                 /\ calls' = [calls EXCEPT ![c] =
                                [pc |-> "resolved", call |-> calls[c].call,
                                 loaded |-> calls[c].loaded,
                                 delta |-> delta,
                                 value |-> calls[c].person]]
     /\ UNCHANGED <<nextId, now, last>>

Hamburger == <<"h","a","m","b","u","r","g","e","r">>

\* addHamburgerToFavorites(personId)
AddHamburgerToFavorites(c, personId) ==
  UpdatePersonClassicFind(c, personId,
    [name |-> Undefined, age |-> Undefined, email |-> Undefined,
     isActive |-> Undefined, addToFavorites |-> Arr(<<Hamburger>>)])

DefaultNewAge == 20

\* findOneAndUpdateAge(personName, newAge = 20)
FindOneAndUpdateAge(personName, newAge) ==
  LET args == [personName |-> personName, newAge |-> newAge]
      age == IF newAge = Undefined THEN Num(DefaultNewAge) ELSE newAge
      found == MatchName(people, personName)
  IN /\ IF ~Truthy(personName)
          THEN /\ last' = Rejected("findOneAndUpdateAge", args,
                                   "personName is required")
               /\ UNCHANGED people
          ELSE IF ~ValidAge(age)
            THEN /\ last' = Rejected("findOneAndUpdateAge", args, "ValidationError")
                 /\ UNCHANGED people
          ELSE IF found = {}
            THEN /\ last' = Resolved("findOneAndUpdateAge", args, Null)
                 /\ UNCHANGED people
            ELSE \E j \in found :
                   LET updated == [people[j] EXCEPT !.age = age, !.updatedAt = now]
                   IN /\ people' = Store(people, updated)
                      /\ last' = Resolved("findOneAndUpdateAge", args, updated)
     /\ UNCHANGED <<nextId, now, calls, log>>

\* deletePersonById(personId)
DeletePersonById(personId) ==
  LET args == [personId |-> personId]
      found == MatchId(people, personId)
  IN /\ IF ~Truthy(personId)
          THEN /\ last' = Rejected("deletePersonById", args, "personId is required")
               /\ UNCHANGED people
          ELSE IF ~CastableId(personId)
            THEN /\ last' = Rejected("deletePersonById", args, "CastError")
                 /\ UNCHANGED people
          ELSE IF found = {}
            THEN /\ last' = Resolved("deletePersonById", args, Null)
                 /\ UNCHANGED people
            ELSE /\ people' = Remove(people, found)
                 /\ last' = Resolved("deletePersonById", args,
                                     people[CHOOSE j \in found : TRUE])
     /\ UNCHANGED <<nextId, now, calls, log>>

\* deleteManyByName(name)
DeleteManyByName(name) ==
  LET args == [name |-> name]
      found == MatchName(people, name)
  IN /\ IF ~Truthy(name)
          THEN /\ last' = Rejected("deleteManyByName", args,
                                   "Name is required for deletion")
               /\ UNCHANGED people
          ELSE /\ people' = Remove(people, found)
               /\ last' = Resolved("deleteManyByName", args,
                                   [deletedCount |-> Cardinality(found)])
     /\ UNCHANGED <<nextId, now, calls, log>>

\* One field of a select() argument: 'path' includes, '-path' excludes
Include(path) == [path |-> path, value |-> 1]
Exclude(path) == [path |-> path, value |-> 0]

\* Query.prototype.select: the fields of the argument are added to the
\* projection the query already has
Select(projection, arg) ==
  [p \in DOMAIN projection \cup {arg[i].path : i \in DOMAIN arg} |->
     IF \E i \in DOMAIN arg : arg[i].path = p
       THEN arg[CHOOSE i \in DOMAIN arg : arg[i].path = p].value
       ELSE projection[p]]

\* The server refuses a projection that both includes and excludes fields
\* (_id apart)
MixedProjection(projection) ==
  /\ \E p \in DOMAIN projection \ {"_id"} : projection[p] = 1
  /\ \E p \in DOMAIN projection \ {"_id"} : projection[p] = 0

\* A document as the projection returns it
Project(d, projection) ==
  IF \E p \in DOMAIN projection \ {"_id"} : projection[p] = 1
    THEN [f \in {g \in DOMAIN d : g = "_id" \/
                   (g \in DOMAIN projection /\ projection[g] = 1)} |-> d[f]]
    ELSE [f \in {g \in DOMAIN d :
                   ~(g \in DOMAIN projection /\ projection[g] = 0)} |-> d[f]]

\* The characters of the model in code-point order
CodePoints == <<" ", "-", ".">> \o <<"0","1","2","3","4","5","6","7","8","9">>
              \o <<"@">> \o AlphaUpper \o <<"_">> \o AlphaLower
CodePoint(c) == CHOOSE i \in DOMAIN CodePoints : CodePoints[i] = c

\* a < b in the binary comparison of strings
RECURSIVE StrLess(_, _)
StrLess(a, b) ==
  IF b = <<>> THEN FALSE
  ELSE IF a = <<>> THEN TRUE
  ELSE IF Head(a) # Head(b) THEN CodePoint(Head(a)) < CodePoint(Head(b))
  ELSE StrLess(Tail(a), Tail(b))

\* sort({ name: 1 }): the documents of ids by ascending name
RECURSIVE SortByName(_, _)
SortByName(coll, ids) ==
  IF ids = {} THEN <<>>
  ELSE LET j == CHOOSE k \in ids :
                  \A m \in ids \ {k} :
                    \/ StrLess(coll[k].name.str, coll[m].name.str)
                    \/ coll[k].name = coll[m].name /\ k < m
       IN <<coll[j]>> \o SortByName(coll, ids \ {j})

QueryLimit == 2

\* limit(n)
Limit(docs, n) == SubSeq(docs, 1, IF Len(docs) < n THEN Len(docs) ELSE n)

Burrito == <<"b","u","r","r","i","t","o">>

\* The projection findBurritoLovers builds: select('-age'), then
\* select('name favoriteFoods')
BurritoProjection ==
  Select(Select(<<>>, <<Exclude("age")>>),
         <<Include("name"), Include("favoriteFoods")>>)

\* findBurritoLovers(food = "burrito")
FindBurritoLovers(food) ==
  LET args == [food |-> food]
      f == IF food = Undefined THEN Str(Burrito) ELSE food
      docs == Limit(SortByName(people, MatchFood(people, f)), QueryLimit)
  IN /\ last' =
          IF MixedProjection(BurritoProjection)
            THEN Rejected("findBurritoLovers", args, "MongoServerError")
            ELSE Resolved("findBurritoLovers", args,
                          Arr([i \in DOMAIN docs |->
                                 Project(docs[i], BurritoProjection)]))
     /\ UNCHANGED <<people, nextId, now, calls, log>>

\* Person.countDocuments(): the number of documents
CountDocuments(coll) == Cardinality(DOMAIN coll)

\* Person.countDocuments({ isActive: true })
CountActive(coll) ==
  Cardinality({j \in DOMAIN coll : coll[j].isActive = Bool(TRUE)})

RECURSIVE GCD(_, _)
GCD(a, b) == IF b = 0 THEN a ELSE GCD(b, a % b)

\* The number n / d, d > 0, in lowest terms
Frac(n, d) == [num |-> n \div GCD(n, d), den |-> d \div GCD(n, d)]

RECURSIVE SumAges(_, _)
SumAges(coll, ids) ==
  IF ids = {} THEN 0
  ELSE LET j == CHOOSE k \in ids : TRUE
       IN coll[j].age.num + SumAges(coll, ids \ {j})

\* An aggregate that averages over every document, a null age counting as 0
AggregateOverAll(coll) ==
  IF DOMAIN coll = {} THEN <<>>
  ELSE <<[avgAge |->
            Frac(SumAges(coll, {j \in DOMAIN coll : IsNum(coll[j].age)}),
                 Cardinality(DOMAIN coll))]>>

\* Person.aggregate([{ $match: { age: { $ne: null } } },
\*                   { $group: { _id: null, avgAge: { $avg: "$age" } } }]):
\* one group when a document matches, none otherwise
Aggregate(coll) ==
  LET matched == {j \in DOMAIN coll : IsNum(coll[j].age)}
  IN IF matched = {} THEN <<>>
     ELSE <<[avgAge |-> Frac(SumAges(coll, matched), Cardinality(matched))]>>

\* averageAge[0]?.avgAge || 0
AverageAge(averageAge) ==
  IF averageAge = <<>> \/ averageAge[1].avgAge.num = 0
    THEN Frac(0, 1)
    ELSE averageAge[1].avgAge

\* getStats(), first await: Person.countDocuments()
GetStatsCountDocuments ==
  /\ stats.pc \in {"idle", "resolved"}
  /\ stats' = [pc |-> "counted",
               dbCalls |-> <<"countDocuments">>,
               totalCount |-> CountDocuments(people)]
  /\ UNCHANGED <<people, nextId, now, calls, log, last>>

\* getStats(), second await: Person.countDocuments({ isActive: true })
GetStatsCountActive ==
  /\ stats.pc = "counted"
  /\ stats' = [pc |-> "countedActive",
               dbCalls |-> Append(stats.dbCalls, "countDocuments"),
               totalCount |-> stats.totalCount,
               activeCount |-> CountActive(people)]
  /\ UNCHANGED <<people, nextId, now, calls, log, last>>

\* getStats(), third await and the return: Person.aggregate(...)
GetStatsAggregate ==
  /\ stats.pc = "countedActive"
  /\ stats' = [pc |-> "resolved",
               dbCalls |-> Append(stats.dbCalls, "aggregate"),
               value |-> [totalPeople |-> stats.totalCount,
                          activePeople |-> stats.activeCount,
                          averageAge |-> AverageAge(Aggregate(people))]]
  /\ UNCHANGED <<people, nextId, now, calls, log, last>>

\* Time passes, up to limit
Elapse(limit) ==
  /\ now < limit
  /\ now' = now + 1
  /\ UNCHANGED <<people, nextId, calls, log, last>>

Tick == Elapse(MaxClock)

----------------------------------------------------------------------------
(* Inputs *)

Al == <<"A","l">>
Bo == <<"B","o">>
Pizza == <<"p","i","z","z","a">>
Pasta == <<"p","a","s","t","a">>

NoData == [name |-> Undefined, age |-> Undefined, favoriteFoods |-> Undefined,
           email |-> Undefined, isActive |-> Undefined]

AlSpaced == <<" ","A","l">>
Cy == <<"C","y">>
PizzaSpaced == <<" ","p","i","z","z","a">>
AlMail == <<"a","l","@","x",".","i","o">>
AlMailUpper == <<"A","L","@","x",".","i","o">>
BoMail == <<"b","o","@","x",".","i","o">>

NoUpdates == [name |-> Undefined, age |-> Undefined, email |-> Undefined,
              isActive |-> Undefined, addToFavorites |-> Undefined]

Init ==
  /\ people = <<>>
  /\ nextId = 1
  /\ now = 0
  /\ calls = [c \in 1..MaxCalls |-> [pc |-> "idle"]]
  /\ log = <<>>
  /\ last = [op |-> "none", args |-> <<>>, outcome |-> "none", value |-> Null]
  /\ stats = [pc |-> "idle"]
  /\ isConnected = FALSE
  /\ connection = Null
  /\ mongoose = [readyState |-> "disconnected", listeners |-> {}, attempts |-> 0,
                 uri |-> <<>>, closed |-> FALSE]
  /\ process = [pc |-> "start", script |-> "none", MONGO_URI |-> Undefined,
                exitCode |-> Null, person1 |-> Undefined,
                tempPerson |-> Undefined, deleteResult |-> Undefined]

PersonIds == {Undefined, Str(<<"a","b","c">>)} \cup {Oid(n) : n \in 1..MaxPeople}

----------------------------------------------------------------------------
(* The service without updatePersonClassic: creation, the queries, the     *)
(* atomic update and the deletions                                         *)

PersonData ==
  {[NoData EXCEPT !.name = Str(Al), !.age = Num(30),
                  !.favoriteFoods = Arr(<<Pizza, Pasta>>), !.email = Str(AlMail)],
   [NoData EXCEPT !.name = Str(Bo), !.favoriteFoods = Arr(<<Pizza>>)],
   [NoData EXCEPT !.name = Str(<<"A","1">>)],
   NoData}

Batches ==
  {Arr(<<[NoData EXCEPT !.name = Str(Cy), !.favoriteFoods = Arr(<<Pizza>>)],
         [NoData EXCEPT !.name = Str(AlSpaced), !.age = Num(7)]>>),
   Arr(<<>>)}

Names == {Undefined, Str(<<>>), Str(Al), Str(Bo), Str(AlSpaced)}
Ages == {Undefined, Num(0), Num(121), Num(-1)}
Foods == {Undefined, Str(Pizza)}

Next ==
  \/ \E d \in PersonData : nextId <= MaxPeople /\ CreateAndSavePerson(d) /\ UNCHANGED rest
  \/ \E b \in Batches :
       nextId + Len(b.arr) - 1 <= MaxPeople /\ CreateManyPeople(b) /\ UNCHANGED rest
  \/ \E n \in Names : FindPeopleByName(n) /\ UNCHANGED rest
  \/ \E f \in Foods : FindOneByFood(f) /\ UNCHANGED rest
  \/ \E i \in PersonIds : FindPersonById(i) /\ UNCHANGED rest
  \/ \E n \in Names, a \in Ages : FindOneAndUpdateAge(n, a) /\ UNCHANGED rest
  \/ \E i \in PersonIds : DeletePersonById(i) /\ UNCHANGED rest
  \/ \E n \in Names : DeleteManyByName(n) /\ UNCHANGED rest
  \/ \E f \in Foods : FindBurritoLovers(f) /\ UNCHANGED rest
  \/ GetAllPeople /\ UNCHANGED rest
  \/ Tick /\ UNCHANGED rest

Spec == Init /\ [][Next]_vars

----------------------------------------------------------------------------
(* Every operation that writes, on records that differ in their email      *)

EmailData ==
  {[NoData EXCEPT !.name = Str(Al), !.email = Str(AlMail)],
   [NoData EXCEPT !.name = Str(Bo), !.email = Str(AlMailUpper)],
   [NoData EXCEPT !.name = Str(Bo), !.email = Str(<<"b","o","@","x">>)],
   [NoData EXCEPT !.name = Str(Bo), !.age = Num(30)]}

EmailBatches ==
  {Arr(<<[NoData EXCEPT !.name = Str(Al)],
         [NoData EXCEPT !.name = Str(Bo), !.email = Str(AlMail)]>>),
   Arr(<<[NoData EXCEPT !.name = Str(Al), !.email = Str(BoMail)],
         [NoData EXCEPT !.name = Str(Bo), !.email = Str(BoMail)]>>),
   Arr(<<[NoData EXCEPT !.name = Str(Al)],
         [NoData EXCEPT !.name = Str(<<"B">>)]>>)}

EmailUpdates ==
  {[NoUpdates EXCEPT !.email = Str(AlMailUpper)],
   [NoUpdates EXCEPT !.email = Null]}

NextEmail ==
  \/ \E d \in EmailData : nextId <= MaxEmailPeople /\ CreateAndSavePerson(d) /\ UNCHANGED rest
  \/ \E b \in EmailBatches :
       nextId + Len(b.arr) - 1 <= MaxEmailPeople /\ CreateManyPeople(b) /\ UNCHANGED rest
  \/ \E c \in 1..MaxCalls, n \in 1..MaxEmailPeople, u \in EmailUpdates :
       UpdatePersonClassicFind(c, Oid(n), u) /\ UNCHANGED rest
  \/ \E c \in 1..MaxCalls : UpdatePersonClassicSave(c) /\ UNCHANGED rest
  \/ FindOneAndUpdateAge(Str(Bo), Num(45)) /\ UNCHANGED rest
  \/ \E n \in 1..MaxEmailPeople : DeletePersonById(Oid(n)) /\ UNCHANGED rest
  \/ DeleteManyByName(Str(Al)) /\ UNCHANGED rest

SpecEmail == Init /\ [][NextEmail]_vars

----------------------------------------------------------------------------
(* updatePersonClassic calls, interleaved, on records that differ in their *)
(* favoriteFoods                                                           *)

FoodData ==
  {[NoData EXCEPT !.name = Str(Al), !.age = Num(30),
                  !.favoriteFoods = Arr(<<Pizza, Pasta>>)]}

FoodUpdates ==
  {[NoUpdates EXCEPT !.addToFavorites = Arr(<<Pizza>>)],
   [NoUpdates EXCEPT !.addToFavorites = Arr(<<Burrito>>)],
   [NoUpdates EXCEPT !.addToFavorites = Arr(<<PizzaSpaced, Hamburger>>)],
   [NoUpdates EXCEPT !.addToFavorites = Arr(<<<<"x">>>>)],
   [NoUpdates EXCEPT !.age = Num(31)]}

NextUpdate ==
  \/ \E d \in FoodData : nextId <= MaxFoodPeople /\ CreateAndSavePerson(d) /\ UNCHANGED rest
  \/ \E c \in 1..MaxCalls, i \in PersonIds, u \in FoodUpdates :
       UpdatePersonClassicFind(c, i, u) /\ UNCHANGED rest
  \/ \E c \in 1..MaxCalls : UpdatePersonClassicSave(c) /\ UNCHANGED rest
  \/ \E c \in 1..MaxCalls, i \in PersonIds : AddHamburgerToFavorites(c, i) /\ UNCHANGED rest
  \/ FindPersonById(Oid(1)) /\ UNCHANGED rest
  \/ FindOneAndUpdateAge(Str(Al), Num(45)) /\ UNCHANGED rest
  \/ DeletePersonById(Oid(1)) /\ UNCHANGED rest

SpecUpdate == Init /\ [][NextUpdate]_vars

----------------------------------------------------------------------------
(* seed.js: what it does to the collection *)

\* seed.js, samplePeople
samplePeople ==
  <<
   [name |-> Str(<<"J","o","h","n"," ","S","m","i","t","h">>),
    age |-> Num(28),
    favoriteFoods |-> Arr(<<<<"p","i","z","z","a">>,
                            <<"b","u","r","g","e","r","s">>,
                            <<"p","a","s","t","a">>>>),
    email |-> Str(<<"j","o","h","n",".","s","m","i","t","h","@","e","x","a","m","p","l","e",".","c","o","m">>),
    isActive |-> Bool(TRUE)],
   [name |-> Str(<<"E","m","m","a"," ","J","o","h","n","s","o","n">>),
    age |-> Num(32),
    favoriteFoods |-> Arr(<<<<"s","u","s","h","i">>,
                            <<"s","a","l","a","d">>,
                            <<"b","u","r","r","i","t","o">>>>),
    email |-> Str(<<"e","m","m","a",".","j","o","h","n","s","o","n","@","e","x","a","m","p","l","e",".","c","o","m">>),
    isActive |-> Bool(TRUE)],
   [name |-> Str(<<"M","i","c","h","a","e","l"," ","B","r","o","w","n">>),
    age |-> Num(45),
    favoriteFoods |-> Arr(<<<<"s","t","e","a","k">>,
                            <<"p","o","t","a","t","o","e","s">>,
                            <<"b","u","r","r","i","t","o">>>>),
    email |-> Str(<<"m","i","c","h","a","e","l",".","b","r","o","w","n","@","e","x","a","m","p","l","e",".","c","o","m">>),
    isActive |-> Bool(TRUE)],
   [name |-> Str(<<"S","a","r","a","h"," ","D","a","v","i","s">>),
    age |-> Num(22),
    favoriteFoods |-> Arr(<<<<"t","a","c","o","s">>,
                            <<"i","c","e"," ","c","r","e","a","m">>,
                            <<"p","i","z","z","a">>>>),
    email |-> Str(<<"s","a","r","a","h",".","d","a","v","i","s","@","e","x","a","m","p","l","e",".","c","o","m">>),
    isActive |-> Bool(TRUE)],
   [name |-> Str(<<"R","o","b","e","r","t"," ","W","i","l","s","o","n">>),
    age |-> Num(38),
    favoriteFoods |-> Arr(<<<<"c","h","i","c","k","e","n">>,
                            <<"r","i","c","e">>,
                            <<"v","e","g","e","t","a","b","l","e","s">>>>),
    email |-> Str(<<"r","o","b","e","r","t",".","w","i","l","s","o","n","@","e","x","a","m","p","l","e",".","c","o","m">>),
    isActive |-> Bool(FALSE)],
   [name |-> Str(<<"M","a","r","y"," ","T","h","o","m","p","s","o","n">>),
    age |-> Num(29),
    favoriteFoods |-> Arr(<<<<"p","a","s","t","a">>,
                            <<"w","i","n","e">>,
                            <<"c","h","e","e","s","e">>>>),
    email |-> Str(<<"m","a","r","y",".","t","h","o","m","p","s","o","n","@","e","x","a","m","p","l","e",".","c","o","m">>),
    isActive |-> Bool(TRUE)],
   [name |-> Str(<<"D","a","v","i","d"," ","M","i","l","l","e","r">>),
    age |-> Num(51),
    favoriteFoods |-> Arr(<<<<"s","e","a","f","o","o","d">>,
                            <<"s","o","u","p">>,
                            <<"b","r","e","a","d">>>>),
    email |-> Str(<<"d","a","v","i","d",".","m","i","l","l","e","r","@","e","x","a","m","p","l","e",".","c","o","m">>),
    isActive |-> Bool(TRUE)],
   [name |-> Str(<<"L","i","s","a"," ","A","n","d","e","r","s","o","n">>),
    age |-> Num(26),
    favoriteFoods |-> Arr(<<<<"b","u","r","r","i","t","o">>,
                            <<"n","a","c","h","o","s">>,
                            <<"g","u","a","c","a","m","o","l","e">>>>),
    email |-> Str(<<"l","i","s","a",".","a","n","d","e","r","s","o","n","@","e","x","a","m","p","l","e",".","c","o","m">>),
    isActive |-> Bool(TRUE)],
   [name |-> Str(<<"J","a","m","e","s"," ","T","a","y","l","o","r">>),
    age |-> Num(33),
    favoriteFoods |-> Arr(<<<<"b","b","q">>,
                            <<"c","o","r","n">>,
                            <<"b","e","a","n","s">>>>),
    email |-> Str(<<"j","a","m","e","s",".","t","a","y","l","o","r","@","e","x","a","m","p","l","e",".","c","o","m">>),
    isActive |-> Bool(TRUE)],
   [name |-> Str(<<"M","a","r","y"," ","J","o","h","n","s","o","n">>),
    age |-> Num(41),
    favoriteFoods |-> Arr(<<<<"s","o","u","p">>,
                            <<"s","a","n","d","w","i","c","h">>,
                            <<"f","r","u","i","t">>>>),
    email |-> Str(<<"m","a","r","y",".","j","o","h","n","s","o","n","@","e","x","a","m","p","l","e",".","c","o","m">>),
    isActive |-> Bool(TRUE)]
  >>

\* await Person.deleteMany({})
ClearPeople ==
  /\ people' = <<>>
  /\ last' = Resolved("Person.deleteMany", <<>>,
                      [deletedCount |-> Cardinality(DOMAIN people)])
  /\ UNCHANGED <<nextId, now, calls, log>>

\* await Person.create(samplePeople): one save per element.  The elements are
\* saved here in the order of the array; every order gives the same documents
\* when none of them is rejected.
CreateSamplePeople ==
  LET st == SaveEach([people |-> people, nextId |-> nextId,
                      saved |-> <<>>, errors |-> <<>>], samplePeople)
  IN /\ people' = st.people
     /\ nextId' = st.nextId
     /\ last' = IF st.errors = <<>>
                  THEN Resolved("Person.create", <<>>, Arr(st.saved))
                  ELSE Rejected("Person.create", <<>>, st.errors[1])
     /\ UNCHANGED <<now, calls, log>>

----------------------------------------------------------------------------
(* getStats, while other callers insert and delete                          *)

MaxStatsPeople == 2

StatsData ==
  {[NoData EXCEPT !.name = Str(Al), !.age = Num(0), !.isActive = Bool(FALSE)],
   [NoData EXCEPT !.name = Str(Bo), !.favoriteFoods = Arr(<<Pizza>>)],
   [NoData EXCEPT !.name = Str(Cy), !.age = Num(7), !.isActive = Bool(TRUE)]}

NextStats ==
  \/ \E d \in StatsData :
       nextId <= MaxStatsPeople /\ CreateAndSavePerson(d) /\ UNCHANGED rest
  \/ nextId <= MaxStatsPeople + 1 /\ CreateSamplePeople /\ UNCHANGED rest
  \/ ClearPeople /\ UNCHANGED rest
  \/ \E n \in 1..MaxStatsPeople : DeletePersonById(Oid(n)) /\ UNCHANGED rest
  \/ GetStatsCountDocuments /\ UNCHANGED app
  \/ GetStatsCountActive /\ UNCHANGED app
  \/ GetStatsAggregate /\ UNCHANGED app

SpecStats == Init /\ [][NextStats]_vars

----------------------------------------------------------------------------
(* updatePersonClassic calls, interleaved with each other and with the      *)
(* atomic update, on a record whose favoriteFoods is nearly full, while     *)
(* time passes                                                              *)

MaxRacePeople == 1
MaxRaceClock == 2

\* n foods, all different
ManyFoods(n) == [i \in 1..n |-> <<"f", AlphaLower[i]>>]

RaceData ==
  {[NoData EXCEPT !.name = Str(Al), !.age = Num(30),
                  !.favoriteFoods = Arr(ManyFoods(MaxFavoriteFoods - 1))],
   [NoData EXCEPT !.name = Str(Bo),
                  !.favoriteFoods = Arr(ManyFoods(MaxFavoriteFoods + 1))]}

RaceUpdates ==
  {[NoUpdates EXCEPT !.addToFavorites = Arr(<<Burrito>>)],
   [NoUpdates EXCEPT !.addToFavorites = Arr(<<Burrito, Pizza>>)],
   [NoUpdates EXCEPT !.age = Num(31)]}

NextRace ==
  \/ \E d \in RaceData :
       nextId <= MaxRacePeople /\ CreateAndSavePerson(d) /\ UNCHANGED rest
  \/ \E c \in 1..MaxCalls, u \in RaceUpdates :
       UpdatePersonClassicFind(c, Oid(1), u) /\ UNCHANGED rest
  \/ \E c \in 1..MaxCalls : AddHamburgerToFavorites(c, Oid(1)) /\ UNCHANGED rest
  \/ \E c \in 1..MaxCalls : UpdatePersonClassicSave(c) /\ UNCHANGED rest
  \/ FindOneAndUpdateAge(Str(Al), Num(45)) /\ UNCHANGED rest
  \/ Elapse(MaxRaceClock) /\ UNCHANGED rest

SpecRace == Init /\ [][NextRace]_vars

----------------------------------------------------------------------------
(* DatabaseConnection, and the underlying mongoose connection *)

\* process.env.MONGO_URI.replace(/['"]+/g, '')
RECURSIVE StripQuotes(_)
StripQuotes(s) ==
  IF s = <<>> THEN <<>>
  ELSE IF Head(s) \in {"'", "\""} THEN StripQuotes(Tail(s))
  ELSE <<Head(s)>> \o StripQuotes(Tail(s))

\* process.exit(code)
Exit(code) == [process EXCEPT !.pc = "exited", !.exitCode = Num(code)]

\* The step of the script that follows its await of database.connect()
AfterConnect == IF process.script = "index" THEN "demo.1" ELSE "seed.clear"

\* A catch block in connect() that logs and lets connect() return
ReturnFromConnect == [process EXCEPT !.pc = AfterConnect]

\* The catch block of connect(): process.exit(1)
OnConnectError == Exit(1)

\* connect(), up to the await of mongoose.connect: the check of MONGO_URI and
\* the one call of mongoose.connect
Connect ==
  /\ process.pc = "connect"
  /\ IF ~Truthy(process.MONGO_URI)
       THEN /\ process' = OnConnectError
            /\ UNCHANGED mongoose
       ELSE /\ mongoose' = [mongoose EXCEPT
                              !.attempts = @ + 1,
                              !.uri = StripQuotes(process.MONGO_URI.str)]
            /\ process' = [process EXCEPT !.pc = "connecting"]
  /\ UNCHANGED <<isConnected, connection>>

\* this.setupEventListeners(): the events the connection listens to
setupEventListeners == {"connected", "error", "disconnected"}

\* connect(), from the await on: mongoose.connect resolved, and connect()
\* keeps the connection, sets isConnected, registers the listeners and returns
ConnectResolved ==
  /\ process.pc = "connecting"
  /\ mongoose.uri # <<>>
  /\ mongoose' = [mongoose EXCEPT !.readyState = "connected",
                                  !.listeners = setupEventListeners]
  /\ connection' = Str(<<"m","o","n","g","o","o","s","e">>)
  /\ isConnected' = TRUE
  /\ process' = [process EXCEPT !.pc = AfterConnect]

\* connect(), from the await on: mongoose.connect rejected (no server was
\* selected within serverSelectionTimeoutMS, or the string is no URI)
ConnectRejected ==
  /\ process.pc = "connecting"
  /\ process' = OnConnectError
  /\ UNCHANGED <<isConnected, connection, mongoose>>

\* The script is running
Alive == process.pc \notin {"start", "exited"}

\* The driver loses the connection: 'disconnected' is emitted, and the
\* listener, when registered, clears isConnected
Dropped ==
  /\ Alive
  /\ mongoose.readyState = "connected"
  /\ mongoose' = [mongoose EXCEPT !.readyState = "disconnected"]
  /\ isConnected' = IF "disconnected" \in mongoose.listeners
                      THEN FALSE ELSE isConnected
  /\ UNCHANGED <<connection, process>>

\* The driver re-establishes a connection it lost: 'connected' is emitted, and
\* the listener logs
Reconnected ==
  /\ Alive
  /\ mongoose.readyState = "disconnected"
  /\ mongoose.listeners # {}
  /\ ~mongoose.closed
  /\ mongoose' = [mongoose EXCEPT !.readyState = "connected"]
  /\ UNCHANGED <<isConnected, connection, process>>

\* disconnect()
Disconnect ==
  IF isConnected
    THEN /\ mongoose' = [mongoose EXCEPT !.readyState = "disconnected",
                                         !.closed = TRUE]
         /\ isConnected' = FALSE
    ELSE UNCHANGED <<mongoose, isConnected>>

\* getStatus()
getStatus == isConnected

----------------------------------------------------------------------------
(* The scripts: index.js and seed.js *)

\* What await does with the call that just settled: its value goes to the
\* local, or the rejection goes to the script's catch block, which exits
Await(local, next) ==
  process' = IF last'.outcome = "rejected" THEN Exit(1)
             ELSE [process EXCEPT !.pc = next, ![local] = last'.value]

\* The values MONGO_URI can have in the environment
MongoUris ==
  {Undefined, Str(<<>>), Str(<<"'", "'">>),
   Str(<<"\"","m","o","n","g","o","d","b",":","/","/","h","\"">>)}

\* node src/index.js: main() starts and calls database.connect()
Main(uri) ==
  /\ process.pc = "start"
  /\ process' = [process EXCEPT !.pc = "connect", !.script = "index",
                                !.MONGO_URI = uri]
  /\ UNCHANGED <<isConnected, connection, mongoose>>

JohnDoe ==
  [NoData EXCEPT
      !.name = Str(<<"J","o","h","n"," ","D","o","e">>),
      !.age = Num(30),
      !.favoriteFoods = Arr(<<<<"p","i","z","z","a">>, <<"p","a","s","t","a">>>>),
      !.email = Str(<<"j","o","h","n","@","e","x","a","m","p","l","e",".","c","o","m">>)]

FivePeople ==
  <<[NoData EXCEPT
      !.name = Str(<<"J","a","n","e"," ","S","m","i","t","h">>),
      !.age = Num(25),
      !.favoriteFoods = Arr(<<<<"s","u","s","h","i">>, <<"s","a","l","a","d">>>>),
      !.email = Str(<<"j","a","n","e","@","e","x","a","m","p","l","e",".","c","o","m">>)],
    [NoData EXCEPT
      !.name = Str(<<"B","o","b"," ","J","o","h","n","s","o","n">>),
      !.age = Num(35),
      !.favoriteFoods = Arr(<<<<"b","u","r","g","e","r">>, <<"f","r","i","e","s">>, <<"b","u","r","r","i","t","o">>>>),
      !.email = Str(<<"b","o","b","@","e","x","a","m","p","l","e",".","c","o","m">>)],
    [NoData EXCEPT
      !.name = Str(<<"A","l","i","c","e"," ","B","r","o","w","n">>),
      !.age = Num(28),
      !.favoriteFoods = Arr(<<<<"t","a","c","o","s">>, <<"b","u","r","r","i","t","o">>, <<"n","a","c","h","o","s">>>>),
      !.email = Str(<<"a","l","i","c","e","@","e","x","a","m","p","l","e",".","c","o","m">>)],
    [NoData EXCEPT
      !.name = Str(<<"M","a","r","y"," ","W","i","l","s","o","n">>),
      !.age = Num(40),
      !.favoriteFoods = Arr(<<<<"s","t","e","a","k">>, <<"p","o","t","a","t","o","e","s">>>>),
      !.email = Str(<<"m","a","r","y","@","e","x","a","m","p","l","e",".","c","o","m">>)],
    [NoData EXCEPT
      !.name = Str(<<"M","a","r","y"," ","J","o","h","n","s","o","n">>),
      !.age = Num(32),
      !.favoriteFoods = Arr(<<<<"s","a","l","a","d">>, <<"y","o","g","u","r","t">>>>)]>>

TempPerson ==
  [NoData EXCEPT
      !.name = Str(<<"T","e","m","p"," ","P","e","r","s","o","n">>),
      !.age = Num(99),
      !.favoriteFoods = Arr(<<<<"t","e","s","t"," ","f","o","o","d">>>>)]

MaryWilson == <<"M","a","r","y"," ","W","i","l","s","o","n">>
MaryJohnson == <<"M","a","r","y"," ","J","o","h","n","s","o","n">>

\* The PersonService state, and the connection manager's
service == <<people, nextId, now, calls, log, last>>
manager == <<isConnected, connection, mongoose>>

\* await of a call whose value the script only prints
AwaitNext(next) ==
  process' = IF last'.outcome = "rejected" THEN Exit(1)
             ELSE [process EXCEPT !.pc = next]

\* demonstrateAllOperations, operation 1
Demo1 ==
  /\ process.pc = "demo.1"
  /\ CreateAndSavePerson(JohnDoe)
  /\ Await("person1", "demo.2")
  /\ UNCHANGED <<stats, manager>>

\* operation 2
Demo2 ==
  /\ process.pc = "demo.2"
  /\ CreateManyPeople(Arr(FivePeople))
  /\ AwaitNext("demo.3")
  /\ UNCHANGED <<stats, manager>>

\* operation 3
Demo3 ==
  /\ process.pc = "demo.3"
  /\ FindPeopleByName(JohnDoe.name)
  /\ AwaitNext("demo.4")
  /\ UNCHANGED <<stats, manager>>

\* operation 4
Demo4 ==
  /\ process.pc = "demo.4"
  /\ FindOneByFood(Str(Pizza))
  /\ AwaitNext("demo.5")
  /\ UNCHANGED <<stats, manager>>

\* operation 5
Demo5 ==
  /\ process.pc = "demo.5"
  /\ FindPersonById(Oid(process.person1._id))
  /\ AwaitNext("demo.6")
  /\ UNCHANGED <<stats, manager>>

\* operations 6 and 7: addHamburgerToFavorites, its read and its callback
Demo6 ==
  /\ process.pc = "demo.6"
  /\ AddHamburgerToFavorites(1, Oid(process.person1._id))
  /\ process' = IF calls'[1].pc = "rejected" THEN Exit(1)
                ELSE [process EXCEPT !.pc = "demo.6.save"]
  /\ UNCHANGED <<stats, manager>>

\* operations 6 and 7: the write of addHamburgerToFavorites
Demo6Save ==
  /\ process.pc = "demo.6.save"
  /\ UpdatePersonClassicSave(1)
  /\ process' = IF calls'[1].pc = "rejected" THEN Exit(1)
                ELSE [process EXCEPT !.pc = "demo.7"]
  /\ UNCHANGED <<stats, manager>>

\* operation 8
Demo7 ==
  /\ process.pc = "demo.7"
  /\ FindOneAndUpdateAge(Str(<<"J","a","n","e"," ","S","m","i","t","h">>), Num(26))
  /\ AwaitNext("demo.8")
  /\ UNCHANGED <<stats, manager>>

\* operation 9: the person to delete
Demo8 ==
  /\ process.pc = "demo.8"
  /\ CreateAndSavePerson(TempPerson)
  /\ Await("tempPerson", "demo.8.delete")
  /\ UNCHANGED <<stats, manager>>

\* operation 9: the deletion
Demo8Delete ==
  /\ process.pc = "demo.8.delete"
  /\ DeletePersonById(Oid(process.tempPerson._id))
  /\ AwaitNext("demo.9")
  /\ UNCHANGED <<stats, manager>>

\* operation 10
Demo9 ==
  /\ process.pc = "demo.9"
  /\ DeleteManyByName(Str(<<"M","a","r","y">>))
  /\ Await("deleteResult", "demo.10")
  /\ UNCHANGED <<stats, manager>>

\* operation 11, the statistics and the listing of the remaining people, after
\* which main() returns.  The chained query rejects, so what follows it in
\* the script never runs.
DemoFromChainedQuery ==
  /\ process.pc \in {"demo.10", "demo.stats.1", "demo.stats.2",
                     "demo.stats.3", "demo.all"}
  /\ IF process.pc = "demo.10"
       THEN /\ FindBurritoLovers(Undefined)
            /\ AwaitNext("demo.stats.1")
            /\ UNCHANGED stats
     ELSE IF process.pc = "demo.stats.1"
       THEN /\ GetStatsCountDocuments
            /\ process' = [process EXCEPT !.pc = "demo.stats.2"]
     ELSE IF process.pc = "demo.stats.2"
       THEN /\ GetStatsCountActive
            /\ process' = [process EXCEPT !.pc = "demo.stats.3"]
     ELSE IF process.pc = "demo.stats.3"
       THEN /\ GetStatsAggregate
            /\ process' = [process EXCEPT !.pc = "demo.all"]
     ELSE /\ GetAllPeople
          /\ AwaitNext("done")
          /\ UNCHANGED stats
  /\ UNCHANGED manager

\* node src/seed.js: seedDatabase() starts and calls database.connect()
SeedDatabase(uri) ==
  /\ process.pc = "start"
  /\ process' = [process EXCEPT !.pc = "connect", !.script = "seed",
                                !.MONGO_URI = uri]
  /\ UNCHANGED <<isConnected, connection, mongoose>>

\* seed.js: the collection is cleared
SeedClear ==
  /\ process.pc = "seed.clear"
  /\ ClearPeople
  /\ AwaitNext("seed.create")
  /\ UNCHANGED <<stats, manager>>

\* seed.js: the sample people are inserted
SeedCreate ==
  /\ process.pc = "seed.create"
  /\ CreateSamplePeople
  /\ AwaitNext("seed.queries")
  /\ UNCHANGED <<stats, manager>>

\* seed.js: the four sample queries, which read and print
SeedQueries ==
  /\ process.pc = "seed.queries"
  /\ process' = [process EXCEPT !.pc = "seed.disconnect"]
  /\ UNCHANGED <<service, stats, manager>>

\* seed.js: database.disconnect(), then process.exit(0)
SeedDisconnect ==
  /\ process.pc = "seed.disconnect"
  /\ Disconnect
  /\ process' = Exit(0)
  /\ UNCHANGED <<service, stats, connection>>

\* The connection emits 'error': the listener logs
ErrorEmitted ==
  /\ Alive
  /\ "error" \in mongoose.listeners
  /\ UNCHANGED vars

NextApp ==
  \/ \E uri \in MongoUris : Main(uri) /\ UNCHANGED <<service, stats>>
  \/ \E uri \in MongoUris : SeedDatabase(uri) /\ UNCHANGED <<service, stats>>
  \/ Connect /\ UNCHANGED <<service, stats>>
  \/ ConnectResolved /\ UNCHANGED <<service, stats>>
  \/ ConnectRejected /\ UNCHANGED <<service, stats>>
  \/ Dropped /\ UNCHANGED <<service, stats>>
  \/ Reconnected /\ UNCHANGED <<service, stats>>
  \/ ErrorEmitted
  \/ Demo1
  \/ Demo2
  \/ Demo3
  \/ Demo4
  \/ Demo5
  \/ Demo6
  \/ Demo6Save
  \/ Demo7
  \/ Demo8
  \/ Demo8Delete
  \/ Demo9
  \/ DemoFromChainedQuery
  \/ SeedClear
  \/ SeedCreate
  \/ SeedQueries
  \/ SeedDisconnect

SpecApp == Init /\ [][NextApp]_vars

----------------------------------------------------------------------------
(* Properties of updatePersonClassic, under SpecUpdate *)

\* The place of entry e in the log
LogPos(e) == CHOOSE i \in DOMAIN log : log[i] = e

Logged(e) == \E i \in DOMAIN log : log[i] = e

NoDuplicates(fs) == \A i, j \in DOMAIN fs : i # j => fs[i] # fs[j]

\* prev followed by each food of toAdd that is not yet in the list, in the
\* order given; a food is what the schema stores for it
RECURSIVE AppendNew(_, _)
AppendNew(prev, toAdd) ==
  IF toAdd = <<>> THEN prev
  ELSE AppendNew(
         IF \E i \in DOMAIN prev : prev[i] = SetFood(Head(toAdd))
           THEN prev
           ELSE Append(prev, SetFood(Head(toAdd))),
         Tail(toAdd))

\* Call c resolved, and no other updatePersonClassic call touched the database
\* between its read and its write, which is the latest write
RanAlone(c) ==
  /\ calls[c].pc = "resolved"
  /\ Len(log) >= 2
  /\ log[Len(log)] = <<"updateOne", c>>
  /\ log[Len(log) - 1] = <<"findById", c>>
  /\ calls[c].loaded._id \in DOMAIN people

\* C1: an updatePersonClassic call that appends favorites and resolves leaves
\* the stored favoriteFoods equal to the previous list followed by each food
\* of addToFavorites that was not already present, in the order given, and
\* never duplicates a food: a list without duplicates stays without.
C1_AppendsOnlyNewFoods ==
  \A c \in 1..MaxCalls :
    RanAlone(c) /\ AddsFavorites(calls[c].call.updates) =>
      LET prev == calls[c].loaded.favoriteFoods
          stored == people[calls[c].loaded._id].favoriteFoods
      IN /\ stored = AppendNew(prev, calls[c].call.updates.addToFavorites.arr)
         /\ NoDuplicates(prev) => NoDuplicates(stored)

\* What call c pushed onto the list it loaded
NewFoods(c) ==
  SubSeq(calls[c].value.favoriteFoods,
         Len(calls[c].loaded.favoriteFoods) + 1,
         Len(calls[c].value.favoriteFoods))

\* Calls a and b both resolved on the same stored record, both read it before
\* either wrote, a wrote first and b wrote last of all, and no third call
\* wrote since the first of the two reads
Raced(a, b) ==
  /\ a # b
  /\ calls[a].pc = "resolved"
  /\ calls[b].pc = "resolved"
  /\ calls[a].loaded._id = calls[b].loaded._id
  /\ calls[a].loaded._id \in DOMAIN people
  /\ LogPos(<<"findById", a>>) < LogPos(<<"updateOne", a>>)
  /\ LogPos(<<"findById", b>>) < LogPos(<<"updateOne", a>>)
  /\ LogPos(<<"updateOne", a>>) < LogPos(<<"updateOne", b>>)
  /\ LogPos(<<"updateOne", b>>) = Len(log)
  /\ \A i \in DOMAIN log :
       log[i][1] = "updateOne" /\ log[i][2] \notin {a, b} =>
         i < LogPos(<<"findById", a>>) /\ i < LogPos(<<"findById", b>>)

\* C2 as claimed: when two calls on the same record interleave with both reads
\* before either write and each appends a food the other does not, both
\* resolve and the stored favoriteFoods has the food of only one of them.
C2_DifferentAppendsLoseOne ==
  \A a, b \in 1..MaxCalls :
    /\ Raced(a, b)
    /\ NewFoods(a) # <<>>
    /\ NewFoods(b) # <<>>
    /\ \A i \in DOMAIN NewFoods(a) : ~Includes(NewFoods(b), NewFoods(a)[i])
    => LET stored == people[calls[a].loaded._id].favoriteFoods
       IN ~(/\ \A i \in DOMAIN NewFoods(a) : Includes(stored, NewFoods(a)[i])
            /\ \A i \in DOMAIN NewFoods(b) : Includes(stored, NewFoods(b)[i]))

\* C2, amended: nothing guards the path, so both calls of such a race resolve
\* and the later write is applied as sent.  When the later writer's append
\* added nothing to the list it loaded, it rewrites the whole list from that
\* stale list, and what the earlier writer pushed is lost; when both pushed
\* new foods, both pushes are in the stored list, in the order of the writes.
C2_StaleSaveIsApplied ==
  \A a, b \in 1..MaxCalls :
    Raced(a, b) =>
      LET stored == people[calls[a].loaded._id].favoriteFoods
      IN /\ AddsFavorites(calls[b].call.updates) /\ NewFoods(b) = <<>> =>
              stored = calls[b].loaded.favoriteFoods
         /\ NewFoods(a) # <<>> /\ NewFoods(b) # <<>> =>
              stored = calls[a].loaded.favoriteFoods \o NewFoods(a) \o NewFoods(b)

\* A lost update: both calls resolved, and a food the first pushed is gone
C2_LostUpdate ==
  \E a, b \in 1..MaxCalls :
    /\ Raced(a, b)
    /\ AddsFavorites(calls[b].call.updates)
    /\ NewFoods(b) = <<>>
    /\ \E i \in DOMAIN NewFoods(a) :
         ~Includes(people[calls[a].loaded._id].favoriteFoods, NewFoods(a)[i])

\* C7: updatePersonClassic with an id that matches no stored record rejects
\* with 'not found', sends no write and leaves the collection as it was, and a
\* rejected call does nothing more; findPersonById, findOneAndUpdateAge and
\* deletePersonById resolve with null when nothing matches.
C7_NotFoundRejects ==
  [][/\ \A c \in 1..MaxCalls :
          /\ calls[c].pc = "idle" /\ calls'[c].pc # "idle"
               /\ IsOid(calls'[c].call.personId)
               /\ calls'[c].call.personId.oid \notin DOMAIN people
             => /\ calls'[c].pc = "rejected"
                /\ calls'[c].error = "not found"
                /\ people' = people
                /\ \A i \in DOMAIN log' : log'[i] # <<"updateOne", c>>
          /\ calls[c].pc = "rejected" => calls'[c] = calls[c]
     /\ calls' = calls /\ now' = now
          /\ last'.op \in {"findPersonById", "deletePersonById"}
          /\ IsOid(last'.args.personId)
          /\ last'.args.personId.oid \notin DOMAIN people
        => /\ last'.outcome = "resolved"
           /\ last'.value = Null
           /\ people' = people
     /\ calls' = calls /\ now' = now
          /\ last'.op = "findOneAndUpdateAge"
          /\ Truthy(last'.args.personName)
          /\ ValidAge(last'.args.newAge)
          /\ (\A j \in DOMAIN people :
                people[j].name # SetName(last'.args.personName))
        => /\ last'.outcome = "resolved"
           /\ last'.value = Null
           /\ people' = people
    ]_vars

\* A call rejected with 'not found' while the collection has a record
C7_RejectedNotFound ==
  \E c \in 1..MaxCalls :
    /\ calls[c].pc = "rejected"
    /\ calls[c].error = "not found"
    /\ DOMAIN people # {}

----------------------------------------------------------------------------
(* Properties of the queries, the atomic update and the deletions, under   *)
(* Spec.  Every step of Spec but Tick is one service call, which last'     *)
(* describes.                                                              *)

ServiceCall(op) == calls' = calls /\ now' = now /\ last'.op = op

\* The stored records whose name is exactly n
NamedExactly(n) == {j \in DOMAIN people : people[j].name = n}

\* The stored records whose name is n without its surrounding whitespace
NamedTrimmed(n) == {j \in DOMAIN people : people[j].name = Str(Trim(n.str))}

\* C5 as claimed: deleteManyByName(n), n not empty, removes the records whose name equals n
\* exactly and no other record, and deletedCount is their number.
C5_DeletesExactName ==
  [][ServiceCall("deleteManyByName") /\ Truthy(last'.args.name) =>
       /\ people' = Remove(people, NamedExactly(last'.args.name))
       /\ last'.outcome = "resolved" =>
            last'.value.deletedCount = Cardinality(NamedExactly(last'.args.name))
    ]_vars

\* C5, amended: deleteManyByName(n) removes the records whose name equals n
\* without its surrounding whitespace and no other record, leaves the others
\* as they were, and deletedCount is the number of records removed.
C5_DeletesTrimmedName ==
  [][ServiceCall("deleteManyByName") /\ Truthy(last'.args.name) =>
       /\ people' = Remove(people, NamedTrimmed(last'.args.name))
       /\ last'.outcome = "resolved" =>
            last'.value.deletedCount = Cardinality(NamedTrimmed(last'.args.name))
    ]_vars

\* deleteManyByName removed two records and left another
C5_DeletedTwoOfThree ==
  /\ last.op = "deleteManyByName"
  /\ last.outcome = "resolved"
  /\ last.value.deletedCount = 2
  /\ DOMAIN people # {}

\* C6: findPersonById never changes the collection; it rejects exactly when
\* the id is missing or cannot be cast to an ObjectId (the error of the
\* database call), and with an id that matches no stored record it resolves
\* with null.
C6_AbsentIdResolvesNull ==
  [][ServiceCall("findPersonById") =>
       LET id == last'.args.personId
       IN /\ people' = people
          /\ last'.outcome = "rejected" <=> (~Truthy(id) \/ ~CastableId(id))
          /\ IsOid(id) /\ id.oid \notin DOMAIN people =>
               last'.outcome = "resolved" /\ last'.value = Null
          /\ IsOid(id) /\ id.oid \in DOMAIN people =>
               last'.outcome = "resolved" /\ last'.value = people[id.oid]
    ]_vars

\* findPersonById resolved with null on a collection that has records
C6_ResolvedNull ==
  /\ last.op = "findPersonById"
  /\ last.outcome = "resolved"
  /\ last.value = Null
  /\ IsOid(last.args.personId)
  /\ DOMAIN people # {}

\* The age findOneAndUpdateAge sets
GivenAge(newAge) == IF newAge = Undefined THEN Num(DefaultNewAge) ELSE newAge

InAgeRange(a) == IsNum(a) /\ a.num >= 0 /\ a.num <= 120

\* What findOneAndUpdateAge(personName, newAge) is to do when the records it
\* is to choose among are those of matching
AgeUpdateOf(matching) ==
  LET a == GivenAge(last'.args.newAge)
  IN IF ~InAgeRange(a)
       THEN last'.outcome = "rejected" /\ people' = people
     ELSE IF matching = {}
       THEN last'.outcome = "resolved" /\ last'.value = Null /\ people' = people
     ELSE /\ last'.outcome = "resolved"
          /\ \E j \in matching :
               /\ people' = Store(people,
                              [people[j] EXCEPT
                                 !.age = a, !.updatedAt = people'[j].updatedAt])
               /\ last'.value = people'[j]
               /\ last'.value.age = a

\* C8 as claimed: for a non-empty personName and with an age in 0..120, one record that has that name gets the
\* age and nothing else changes but its updatedAt, and the call resolves with
\* the updated document; with no record of that name it resolves with null and
\* changes nothing; with an age out of range it rejects and changes nothing.
C8_UpdatesOneOfExactName ==
  [][ServiceCall("findOneAndUpdateAge") /\ Truthy(last'.args.personName) =>
       AgeUpdateOf(NamedExactly(last'.args.personName))
    ]_vars

\* C8, amended: the same, of the records whose name is personName without its
\* surrounding whitespace.
C8_UpdatesOneOfTrimmedName ==
  [][ServiceCall("findOneAndUpdateAge") /\ Truthy(last'.args.personName) =>
       AgeUpdateOf(NamedTrimmed(last'.args.personName))
    ]_vars

\* findOneAndUpdateAge updated one of two records of the same name
C8_UpdatedOneOfTwo ==
  /\ last.op = "findOneAndUpdateAge"
  /\ last.outcome = "resolved"
  /\ last.value # Null
  /\ \E j, k \in DOMAIN people :
       /\ people[j].name = people[k].name
       /\ people[j] = last.value
       /\ people[k].age # last.value.age

\* C9: findBurritoLovers(food) resolves with at most 2 records, the first in
\* ascending order of name among those whose favoriteFoods has the food, each
\* with its _id, name and favoriteFoods and nothing else.
C9_ResolvesWithTwoProjected ==
  last.op = "findBurritoLovers" =>
    /\ last.outcome = "resolved"
    /\ LET docs == last.value.arr
           food == IF last.args.food = Undefined THEN Str(Burrito) ELSE last.args.food
           matching == MatchFood(people, food)
       IN /\ Len(docs) <= 2
          /\ Len(docs) = IF Cardinality(matching) < 2 THEN Cardinality(matching) ELSE 2
          /\ \A i \in DOMAIN docs :
               /\ DOMAIN docs[i] = {"_id", "name", "favoriteFoods"}
               /\ docs[i]._id \in matching
               /\ docs[i].name = people[docs[i]._id].name
               /\ docs[i].favoriteFoods = people[docs[i]._id].favoriteFoods
          /\ \A i, j \in DOMAIN docs :
               i < j => ~StrLess(docs[j].name.str, docs[i].name.str)
          /\ \A m \in matching \ {docs[i]._id : i \in DOMAIN docs} :
               \A i \in DOMAIN docs :
                 ~StrLess(people[m].name.str, docs[i].name.str)

----------------------------------------------------------------------------
(* Properties of the emails, under SpecEmail *)

\* No two records of coll have the same email, null apart
UniqueEmails(coll) ==
  \A j, k \in DOMAIN coll :
    j # k /\ IsStr(coll[j].email) => coll[j].email # coll[k].email

\* C3: no two stored records ever have the same non-null email;
\* createAndSavePerson with an email that another stored record has, and the
\* save of an updatePersonClassic that sets such an email, are rejected and
\* leave the collection as it was.  The email of a record is the one the
\* schema stores: lower-cased and trimmed.
C3_EmailsStayUnique ==
  [][/\ UniqueEmails(people)
     /\ UniqueEmails(people')
     /\ ServiceCall("createAndSavePerson")
          /\ IsStr(SetEmail(last'.args.personData.email))
          /\ (\E j \in DOMAIN people :
                people[j].email = SetEmail(last'.args.personData.email))
        => last'.outcome = "rejected" /\ people' = people
     /\ \A c \in 1..MaxCalls :
          /\ calls[c].pc = "saving"
          /\ calls'[c].pc # "saving"
          /\ "email" \in DOMAIN calls[c].delta.set
          /\ IsStr(calls[c].person.email)
          /\ (\E j \in DOMAIN people \ {calls[c].loaded._id} :
                people[j].email = calls[c].person.email)
          => calls'[c].pc = "rejected" /\ people' = people
    ]_vars

\* createAndSavePerson was rejected for an email that a stored record has
C3_DuplicateRejected ==
  /\ last.op = "createAndSavePerson"
  /\ last.outcome = "rejected"
  /\ last.value = "E11000"
  /\ \E j \in DOMAIN people :
       /\ IsStr(people[j].email)
       /\ people[j].email = SetEmail(last.args.personData.email)

\* C4: createAndSavePerson with valid data that omits email succeeds, however
\* many stored records have no email.
C4_InsertWithoutEmailSucceeds ==
  /\ last.op = "createAndSavePerson"
  /\ last.args.personData.email = Undefined
  /\ Truthy(last.args.personData.name)
  /\ ValidPerson(NewPerson(nextId, last.args.personData))
  => last.outcome = "resolved"

\* C10: a createManyPeople that rejects persists none of the array's records.
C10_RejectedBatchStoresNothing ==
  [][ServiceCall("createManyPeople") /\ last'.outcome = "rejected" =>
       people' = people
    ]_vars

----------------------------------------------------------------------------
(* Properties of getStats and of what createAndSavePerson stores, under     *)
(* SpecStats                                                                *)

\* C11: a service method issues at most one database call per invocation,
\* updatePersonClassic apart; in particular getStats issues a single one.
C11_GetStatsIssuesOneCall ==
  stats.pc # "idle" => Len(stats.dbCalls) <= 1

\* The collection holds the ten sample records of seed.js and nothing else
SeedStored ==
  /\ Cardinality(DOMAIN people) = Len(samplePeople)
  /\ \A i \in DOMAIN samplePeople : \E j \in DOMAIN people :
       /\ people[j].name = samplePeople[i].name
       /\ people[j].age = samplePeople[i].age
       /\ people[j].isActive = samplePeople[i].isActive

\* The records that have an age
WithAge == {j \in DOMAIN people : IsNum(people[j].age)}

\* C16: getStats returns as totalPeople the number of stored records, as
\* activePeople the number of stored records with isActive true and as
\* averageAge the mean of the ages that are not null, 0 when there is none,
\* each computed on the collection as it is when its database call runs; for
\* the ten sample records of seed.js they are 10, 9 and 34.5.
C16_StatsOfTheCollection ==
  [][/\ stats.pc \in {"idle", "resolved"} /\ stats'.pc = "counted" =>
          /\ stats'.totalCount = Cardinality(DOMAIN people)
          /\ SeedStored => stats'.totalCount = 10
     /\ stats.pc = "counted" /\ stats'.pc = "countedActive" =>
          /\ stats'.totalCount = stats.totalCount
          /\ stats'.activeCount =
               Cardinality({j \in DOMAIN people : people[j].isActive.bool})
          /\ SeedStored => stats'.activeCount = 9
     /\ stats.pc = "countedActive" /\ stats'.pc = "resolved" =>
          /\ stats'.value.totalPeople = stats.totalCount
          /\ stats'.value.activePeople = stats.activeCount
          /\ stats'.value.averageAge.den > 0
          /\ WithAge = {} => stats'.value.averageAge.num = 0
          /\ stats'.value.averageAge.num * Cardinality(WithAge) =
               SumAges(people, WithAge) * stats'.value.averageAge.den
          /\ SeedStored => stats'.value.averageAge = [num |-> 69, den |-> 2]
    ]_vars

\* getStats resolved on the ten sample records with 10, 9 and 34.5
C16_SeedStats ==
  /\ SeedStored
  /\ stats.pc = "resolved"
  /\ stats.value = [totalPeople |-> 10, activePeople |-> 9,
                    averageAge |-> [num |-> 69, den |-> 2]]

\* C17: createAndSavePerson with a name and an age in 0..120 resolves with a
\* record that has the name, age, favoriteFoods and isActive it was given; an
\* age that was given is never replaced by null.
C17_StoresWhatItIsGiven ==
  LET personData == last.args.personData
  IN /\ last.op = "createAndSavePerson"
     /\ last.outcome = "resolved"
     /\ IsNum(personData.age)
     /\ personData.age.num \in MinAge..MaxAge
     => /\ last.value.name = personData.name
        /\ last.value.age = personData.age
        /\ IsArr(personData.favoriteFoods) =>
             last.value.favoriteFoods = personData.favoriteFoods.arr
        /\ IsBool(personData.isActive) =>
             last.value.isActive = personData.isActive

\* C18: the summary getStats returns has activePeople <= totalPeople, also
\* when other callers insert and delete between its database calls.
C18_ActiveAtMostTotal ==
  stats.pc = "resolved" => stats.value.activePeople <= stats.value.totalPeople

----------------------------------------------------------------------------
(* Properties of the stored lists and timestamps, under SpecRace *)

\* C14: no stored record ever has more than 20 favoriteFoods: an insert with
\* more is rejected, and an updatePersonClassic append that would take the
\* list past 20 is rejected and leaves the stored record as it was.
C14_AtMostTwentyFoods ==
  \A j \in DOMAIN people : Len(people[j].favoriteFoods) <= MaxFavoriteFoods

\* C15: the createdAt of a stored record never changes and its updatedAt
\* never decreases, whatever writes to the record, updatePersonClassic and
\* findOneAndUpdateAge calls interleaved on it included.
C15_TimestampsNeverGoBack ==
  [][\A j \in DOMAIN people \cap DOMAIN people' :
        /\ people'[j].createdAt = people[j].createdAt
        /\ people'[j].updatedAt >= people[j].updatedAt
    ]_vars

----------------------------------------------------------------------------
(* Properties of the connection manager and of the scripts, under SpecApp *)

\* C12: getStatus() is true exactly when the underlying connection is
\* connected, in every state that connect(), disconnect() and the events of
\* the connection lead to: false before connect and after disconnect(), true
\* again once the driver has re-established a connection it lost.
C12_StatusIsTheConnectionState ==
  getStatus = (mongoose.readyState = "connected")

\* C13: connect() makes one attempt at most, and none when MONGO_URI is
\* absent; when MONGO_URI is absent or the attempt fails, the process exits
\* with code 1, isConnected stays false, no listener is registered, connect()
\* does not return and no PersonService operation of the script runs; an
\* exited process takes no step.
C13_FailedConnectIsTerminal ==
  [][/\ process.pc # "exited"
     /\ mongoose'.attempts <= 1
     /\ process.pc = "connect" /\ ~Truthy(process.MONGO_URI) =>
          /\ mongoose'.attempts = 0
          /\ process'.pc = "exited"
     /\ process.pc \in {"connect", "connecting"} /\ mongoose'.readyState # "connected" =>
          /\ process'.pc \in {"connecting", "exited"}
          /\ process'.pc = "exited" => process'.exitCode = Num(1)
          /\ ~isConnected'
          /\ connection' = Null
          /\ mongoose'.listeners = {}
          /\ last'.op = "none"
          /\ people' = <<>>
     /\ process'.pc \notin {"start", "connect", "connecting", "exited"} =>
          connection' # Null
    ]_vars

\* The process exited with code 1 after its one attempt failed
C13_ExitedAfterFailedAttempt ==
  /\ process.pc = "exited"
  /\ process.exitCode = Num(1)
  /\ mongoose.attempts = 1
  /\ connection = Null
  /\ ~isConnected

\* C19: in the demo, run on an empty collection, deleteManyByName('Mary')
\* deletes the records 'Mary Wilson' and 'Mary Johnson': deletedCount is 2 and
\* neither record remains.
C19_DemoDeletesBothMarys ==
  process.script = "index" /\ process.deleteResult # Undefined =>
    /\ process.deleteResult.deletedCount = 2
    /\ \A j \in DOMAIN people :
         people[j].name \notin {Str(MaryWilson), Str(MaryJohnson)}

====
